---- MODULE Spec2Model ----
(***************************************************************************)
(* Calendar / billing reconciliation of craft-your-kind.                   *)
(*                                                                         *)
(* The module models                                                       *)
(*   - the name normaliser and the patient matcher of                      *)
(*     MonthlyBillingSummary.tsx (pure functions over strings),            *)
(*   - the monthly billing assembly (billingEvents / billingData),         *)
(*   - the payment reconciler: the auto-sync effect of                     *)
(*     MonthlyBillingSummary.tsx and the toggles of PatientBillingCard.tsx,*)
(*     as asynchronous operations racing on the payments table and on the  *)
(*     cached "payments" query,                                            *)
(*   - the list of unmatched labels of MonthlyBillingSummary.tsx,          *)
(*   - the google-calendar-update-colors function: batches of colour       *)
(*     PATCH requests with a retry on the rate-limit answer.               *)
(*                                                                         *)
(* Strings are sequences of one-character strings.  Arrays of event ids    *)
(* (paid_event_ids) are sets: event ids are unique, the code never reads   *)
(* their order and never produces a duplicate.                             *)
(***************************************************************************)
EXTENDS Integers, Sequences, FiniteSets, Bags, TLC

VARIABLES
    calendarData,   \* events of the cached calendar query: event id -> colorId
    paymentsTable,  \* the payments table (one month): patient id -> row or NoRow
    payments,       \* data of the cached ["payments", month] query
    syncedMonths,   \* syncedMonthsRef.current.has(currentMonth)
    inflight,       \* asynchronous operations in progress, in start order
    last,           \* what the latest store write / repaint / sync step did
    billing,        \* billingData of the last render
    steps,          \* clicks, recolourings and remounts so far
    arg,            \* input of the pure function under check
    result,         \* its output
    colorRequest    \* a google-calendar-update-colors request being served

vars == <<calendarData, paymentsTable, payments, syncedMonths, inflight, last,
          billing, steps, arg, result, colorRequest>>

reconcilerVars == <<calendarData, paymentsTable, payments, syncedMonths,
                    inflight, last, billing, steps>>

-----------------------------------------------------------------------------
(* Generic helpers                                                         *)

\* the sequence f with every element computed once
Tuple(f) == SubSeq(f, 1, Len(f))

\* the function f with every value computed once
Table(f) == f @@ [x \in {} |-> x]

RECURSIVE SumSeq(_)
SumSeq(s) == IF s = << >> THEN 0 ELSE Head(s) + SumSeq(Tail(s))

-----------------------------------------------------------------------------
(* Colours                                                                 *)

NoColor == ""               \* colorId undefined
BILLING_COLOR_IDS == {"5", "3"}
CANCELLED_COLOR_ID == "4"
PAID_COLOR_ID == "3"

isBillingEvent(colorId) == colorId = NoColor \/ colorId \in BILLING_COLOR_IDS

-----------------------------------------------------------------------------
(* normalizeName                                                           *)

\* "~" stands for a Hebrew niqqud mark (a code point in U+0591..U+05C7)
Nikud == {"~"}
Whitespace == {" ", "\t"}

toLowerCase(c) ==
    CASE c = "A" -> "a"
      [] c = "B" -> "b"
      [] c = "D" -> "d"
      [] c = "K" -> "k"
      [] OTHER -> c

\* String.prototype.normalize("NFC"): every character of the alphabet used
\* here is a single code point that is already in composed form
NFC(s) == s

RECURSIVE trimStart(_)
trimStart(s) ==
    IF s # << >> /\ Head(s) \in Whitespace THEN trimStart(Tail(s)) ELSE s

RECURSIVE trimEnd(_)
trimEnd(s) ==
    IF s # << >> /\ s[Len(s)] \in Whitespace
    THEN trimEnd(SubSeq(s, 1, Len(s) - 1)) ELSE s

trim(s) == trimEnd(trimStart(s))

RECURSIVE collapseWhitespace(_)
\* replace(/\s+/g, " ")
collapseWhitespace(s) ==
    IF s = << >> THEN << >>
    ELSE IF Head(s) \in Whitespace
         THEN <<" ">> \o collapseWhitespace(trimStart(s))
         ELSE <<Head(s)>> \o collapseWhitespace(Tail(s))

lowerCase(s) == Tuple([i \in 1..Len(s) |-> toLowerCase(s[i])])

\* replace(/[\u0591-\u05C7]/g, "")
stripNikud(s) == SelectSeq(s, LAMBDA c : c \notin Nikud)

RECURSIVE collapseDuplicates(_)
\* replace(/(.)\1+/g, "$1")
collapseDuplicates(s) ==
    IF Len(s) < 2 THEN s
    ELSE IF s[1] = s[2] THEN collapseDuplicates(Tail(s))
         ELSE <<Head(s)>> \o collapseDuplicates(Tail(s))

normalizeName(name) ==
    collapseDuplicates(stripNikud(lowerCase(collapseWhitespace(trim(NFC(name))))))

-----------------------------------------------------------------------------
(* Patients, aliases, findMatchingPatient                                  *)

NoParent == "null"

Patient(id, name, price, btype, parent) ==
    [id |-> id, name |-> name, session_price |-> price,
     billing_type |-> btype, parent_patient_id |-> parent]

\* the null result of findMatchingPatient
NoPatient == Patient("null", << >>, 0, "", NoParent)
NoMatch == [patient |-> NoPatient, viaAlias |-> FALSE]

\* aliasMap.set(normalizeName(a.event_name), a.patient_id) for every alias row,
\* a later row replacing an earlier one with the same key
aliasMap(aliases) ==
    LET keys == {normalizeName(aliases[i].event_name) : i \in 1..Len(aliases)}
        lastRow(k) == CHOOSE i \in 1..Len(aliases) :
                          /\ normalizeName(aliases[i].event_name) = k
                          /\ \A j \in 1..Len(aliases) :
                                normalizeName(aliases[j].event_name) = k => j <= i
    IN  [k \in keys |-> aliases[lastRow(k)].patient_id]

\* patients.find(p => p.id === id): index of the first such patient, 0 if none
findById(patients, id) ==
    IF \E i \in 1..Len(patients) : patients[i].id = id
    THEN CHOOSE i \in 1..Len(patients) :
             /\ patients[i].id = id
             /\ \A j \in 1..(i - 1) : patients[j].id # id
    ELSE 0

\* index of the first patient whose normalized name is key, 0 if none
firstExact(patients, key) ==
    IF \E i \in 1..Len(patients) : normalizeName(patients[i].name) = key
    THEN CHOOSE i \in 1..Len(patients) :
             /\ normalizeName(patients[i].name) = key
             /\ \A j \in 1..(i - 1) : normalizeName(patients[j].name) # key
    ELSE 0

\* a saved alias consulted before the exact names
aliasBeforeExact(eventName, patients, amap) ==
    LET normalizedEvent == normalizeName(eventName)
        exact == firstExact(patients, normalizedEvent)
    IN  IF normalizedEvent \in DOMAIN amap
           /\ amap[normalizedEvent] # ""
           /\ findById(patients, amap[normalizedEvent]) # 0
        THEN [patient |-> patients[findById(patients, amap[normalizedEvent])],
              viaAlias |-> TRUE]
        ELSE IF exact # 0 THEN [patient |-> patients[exact], viaAlias |-> FALSE]
        ELSE NoMatch

findMatchingPatient(eventName, patients, amap) ==
    LET normalizedEvent == normalizeName(eventName)
        exact == firstExact(patients, normalizedEvent)
    IN  IF exact # 0 THEN [patient |-> patients[exact], viaAlias |-> FALSE]
        ELSE IF normalizedEvent \in DOMAIN amap
                /\ amap[normalizedEvent] # ""
                /\ findById(patients, amap[normalizedEvent]) # 0
             THEN [patient |-> patients[findById(patients, amap[normalizedEvent])],
                   viaAlias |-> TRUE]
             ELSE NoMatch

-----------------------------------------------------------------------------
(* Monthly billing assembly: billingEvents / billingData                   *)

Event(id, summary, colorId) == [id |-> id, summary |-> summary, colorId |-> colorId]

\* overrideMap.set(o.event_id, Number(o.custom_price)) for every override row
overrideMap(sessionOverrides) ==
    LET keys == {sessionOverrides[i].event_id : i \in 1..Len(sessionOverrides)}
        lastRow(k) == CHOOSE i \in 1..Len(sessionOverrides) :
                          /\ sessionOverrides[i].event_id = k
                          /\ \A j \in 1..Len(sessionOverrides) :
                                sessionOverrides[j].event_id = k => j <= i
    IN  [k \in keys |-> sessionOverrides[lastRow(k)].custom_price]

\* every calendar event taken for a billing event
unfilteredEvents(events) == events

billingEvents(events) ==
    SelectSeq(events, LAMBDA e : isBillingEvent(e.colorId)
                                 /\ e.colorId # CANCELLED_COLOR_ID)

childPatientsByParent(patients, parentId) ==
    SelectSeq(patients, LAMBDA p : p.parent_patient_id # NoParent
                                   /\ p.parent_patient_id = parentId)

standalonePatients(patients) ==
    SelectSeq(patients, LAMBDA p : p.parent_patient_id = NoParent
                                   \/ p.billing_type = "institution")

patientsToMatch(patient, patients) ==
    IF patient.billing_type = "institution"
    THEN <<patient>> \o childPatientsByParent(patients, patient.id)
    ELSE <<patient>>

\* the event matches member p of the match set, looked up alone
matchesOne(event, p, amap) ==
    findMatchingPatient(event.summary, <<p>>, amap).patient.id = p.id

\* index in toMatch of the patient that actually matched, 0 if none
matchedIndex(event, toMatch, amap) ==
    IF \E i \in 1..Len(toMatch) : matchesOne(event, toMatch[i], amap)
    THEN CHOOSE i \in 1..Len(toMatch) :
             /\ matchesOne(event, toMatch[i], amap)
             /\ \A j \in 1..(i - 1) : ~matchesOne(event, toMatch[j], amap)
    ELSE 0

NoChild == << >>    \* childPatientName undefined

\* (sessionAtParentPrice: an override of 0 taken for none, and the price of
\* the billed patient instead of the matched one)
sessionAtParentPrice(event, patient, toMatch, amap, omap) ==
    LET matchedPatient == toMatch[matchedIndex(event, toMatch, amap)]
    IN  [eventId |-> event.id,
         summary |-> event.summary,
         childPatientName |->
             IF matchedPatient.id # patient.id THEN matchedPatient.name ELSE NoChild,
         sessionPrice |->
             IF event.id \in DOMAIN omap /\ omap[event.id] # 0 THEN omap[event.id]
             ELSE patient.session_price]

sessionOf(event, patient, toMatch, amap, omap) ==
    LET matchedPatient == toMatch[matchedIndex(event, toMatch, amap)]
    IN  [eventId |-> event.id,
         summary |-> event.summary,
         childPatientName |->
             IF matchedPatient.id # patient.id THEN matchedPatient.name ELSE NoChild,
         sessionPrice |->
             IF event.id \in DOMAIN omap THEN omap[event.id]
             ELSE matchedPatient.session_price]

matchingSessions(patient, patients, events, amap, omap) ==
    LET toMatch == patientsToMatch(patient, patients)
        matched == SelectSeq(billingEvents(events),
                             LAMBDA e : matchedIndex(e, toMatch, amap) # 0)
    IN  Tuple([i \in 1..Len(matched) |->
                  sessionOf(matched[i], patient, toMatch, amap, omap)])

billingOf(patient, patients, events, amap, omap) ==
    LET sessions == matchingSessions(patient, patients, events, amap, omap)
    IN  [patient |-> patient,
         sessions |-> sessions,
         total |-> SumSeq([i \in 1..Len(sessions) |-> sessions[i].sessionPrice])]

RECURSIVE insertByTotal(_, _)
\* place b after every entry whose total is >= b.total (stable, descending)
insertByTotal(sorted, b) ==
    IF sorted = << >> THEN <<b>>
    ELSE IF Head(sorted).total >= b.total
         THEN <<Head(sorted)>> \o insertByTotal(Tail(sorted), b)
         ELSE <<b>> \o sorted

RECURSIVE sortByTotal(_)
\* .sort((a, b) => b.total - a.total)
sortByTotal(bs) ==
    IF bs = << >> THEN << >>
    ELSE insertByTotal(sortByTotal(SubSeq(bs, 1, Len(bs) - 1)), bs[Len(bs)])

billingData(patients, events, amap, omap) ==
    LET standalone == standalonePatients(patients)
        all == Tuple([i \in 1..Len(standalone) |->
                         billingOf(standalone[i], patients, events, amap, omap)])
    IN  sortByTotal(SelectSeq(all, LAMBDA b : Len(b.sessions) > 0))

-----------------------------------------------------------------------------
(* Unmatched labels of the month: unmatchedByName / filteredUnmatched       *)

\* new Set(ignoredEvents.map(e => normalizeName(e.event_name)))
ignoredSet(ignoredEvents) ==
    {normalizeName(ignoredEvents[i].event_name) : i \in 1..Len(ignoredEvents)}

\* the ids the map callback of billingData has added to matchedEventIds
matchedEventIds(patients, events, amap) ==
    LET standalone == standalonePatients(patients)
        kept == billingEvents(events)
    IN  {kept[j].id : j \in {x \in 1..Len(kept) :
            \E i \in 1..Len(standalone) :
                matchedIndex(kept[x], patientsToMatch(standalone[i], patients), amap) # 0}}

unmatchedBillingEvents(patients, events, amap) ==
    SelectSeq(billingEvents(events),
              LAMBDA e : e.id \notin matchedEventIds(patients, events, amap))

unmatchedAllEvents(patients, events, amap) ==
    SelectSeq(events, LAMBDA e : /\ e.id \notin matchedEventIds(patients, events, amap)
                                 /\ Len(trim(e.summary)) > 0)

\* one round of the first forEach: an unmatched billing event is counted
\* under its trimmed label
countBillingEvent(byName, e) ==
    LET name == trim(e.summary)
        entered == IF name \in DOMAIN byName THEN byName
                   ELSE byName @@ (name :> [count |-> 0, isBilling |-> TRUE])
    IN  IF name = << >> THEN byName
        ELSE [entered EXCEPT ![name].count = @ + 1]

\* one round of the second forEach: a label no patient answers to gets an
\* entry, and the event is counted unless its colour is a billing colour
countOtherEvent(byName, e, patients, amap) ==
    LET name == trim(e.summary)
        entered == IF /\ name # << >>
                      /\ name \notin DOMAIN byName
                      /\ findMatchingPatient(name, patients, amap) = NoMatch
                   THEN byName @@ (name :> [count |-> 0, isBilling |-> FALSE])
                   ELSE byName
    IN  IF name # << >> /\ name \in DOMAIN entered /\ e.colorId \notin BILLING_COLOR_IDS
        THEN [entered EXCEPT ![name].count = @ + 1]
        ELSE entered

RECURSIVE countBillingEvents(_, _)
countBillingEvents(byName, es) ==
    IF es = << >> THEN byName
    ELSE countBillingEvents(countBillingEvent(byName, Head(es)), Tail(es))

RECURSIVE countOtherEvents(_, _, _, _)
countOtherEvents(byName, es, patients, amap) ==
    IF es = << >> THEN byName
    ELSE countOtherEvents(countOtherEvent(byName, Head(es), patients, amap),
                          Tail(es), patients, amap)

unmatchedByName(patients, events, amap) ==
    countOtherEvents(
        countBillingEvents([n \in {} |-> n], unmatchedBillingEvents(patients, events, amap)),
        unmatchedAllEvents(patients, events, amap), patients, amap)

\* the labels shown to the user, each with its entry
filteredUnmatched(patients, events, amap, ignored) ==
    LET byName == unmatchedByName(patients, events, amap)
        shown == {name \in DOMAIN byName :
                     /\ findMatchingPatient(name, patients, amap) = NoMatch
                     /\ normalizeName(name) \notin ignored}
    IN  [name \in shown |-> byName[name]]

-----------------------------------------------------------------------------
(* The month the reconciler runs on: roster, calendar events, overrides    *)

Dana == <<"d", "a", "n", "a">>
DanaTyped == <<"D", "a", "~", "n", "n", "a", " ">>   \* same patient, typed loosely
Gan == <<"g", "a", "n">>
Kid == <<"k", "i", "d">>
KidTyped == <<"K", "i", "d">>

Roster ==
    << Patient("p1", Dana, 200, "per_session", NoParent),
       Patient("p2", Gan, 100, "institution", NoParent),
       Patient("p3", Kid, 80, "per_session", "p2") >>

\* the month's events: two sessions of Dana, the second typed loosely
EventIds == {"e1", "e2"}
EventOrder == <<"e1", "e2">>
Summary == [e \in EventIds |-> IF e = "e1" THEN Dana ELSE DanaTyped]

Aliases == << >>
SessionOverrides == << [event_id |-> "e2", custom_price |-> 150] >>

\* colours the calendar query can bring for an event: unset, paid, cancelled
SyncColours == {NoColor, PAID_COLOR_ID, CANCELLED_COLOR_ID}

\* calendarData.events
eventsOf(cd) == Tuple([i \in 1..Len(EventOrder) |->
                    Event(EventOrder[i], Summary[EventOrder[i]], cd[EventOrder[i]])])

\* billingData of a render, for every colouring of the month's events
BillingTable ==
    Table([cd \in [EventIds -> SyncColours] |->
              billingData(Roster, eventsOf(cd), aliasMap(Aliases),
                          overrideMap(SessionOverrides))])

Billing(cd) == BillingTable[cd]

PatientIds == {Roster[i].id : i \in 1..Len(Roster)}

-----------------------------------------------------------------------------
(* Payment rows                                                            *)

Row(paid, amount, count, ids) ==
    [exists |-> TRUE, paid |-> paid, amount |-> amount,
     session_count |-> count, paid_event_ids |-> ids]

\* payments.find(...) found nothing
NoRow == [exists |-> FALSE, paid |-> FALSE, amount |-> 0,
          session_count |-> 0, paid_event_ids |-> {}]

\* (payment as any)?.paid_event_ids || []
paidIdsOf(payment) == IF payment.exists THEN payment.paid_event_ids ELSE {}

sessionIds(b) == {b.sessions[i].eventId : i \in 1..Len(b.sessions)}

\* the closure's view of the billing sessions: event id and effective price
sessionView(b) ==
    {[eventId |-> b.sessions[i].eventId, sessionPrice |-> b.sessions[i].sessionPrice]
        : i \in 1..Len(b.sessions)}

\* sum of the prices of the sessions of b whose event id is in ids
paidAmountOf(b, ids) ==
    SumSeq([i \in 1..Len(b.sessions) |->
               IF b.sessions[i].eventId \in ids THEN b.sessions[i].sessionPrice ELSE 0])

Write(by, op, patient, event, row, sessions) ==
    [by |-> by, op |-> op, patient |-> patient, event |-> event, row |-> row,
     sessions |-> sessions]

\* the payments table after a write request reached it.  An update goes by row
\* id, and rows are never deleted; an insert of a second row for the patient and
\* month violates UNIQUE(patient_id, month) and is rejected.
applyWrite(table, w) ==
    IF w.op = "insert" /\ table[w.patient].exists THEN table
    ELSE [table EXCEPT ![w.patient] = w.row]

writeApplied(table, w) == ~(w.op = "insert" /\ table[w.patient].exists)

-----------------------------------------------------------------------------
(* Auto-sync effect: purple calendar events -> paid status                 *)

purpleIds(b, cd) == {e \in sessionIds(b) : cd[e] = "3"}

\* the ids already stored are not filtered out
allPurpleIds(b, cd, pays) == purpleIds(b, cd)

newPurpleIds(b, cd, pays) == purpleIds(b, cd) \ paidIdsOf(pays[b.patient.id])

\* the "updates" array of the effect
syncUpdates(bd, cd, pays) ==
    LET needs == SelectSeq(bd, LAMBDA b : /\ purpleIds(b, cd) # {}
                                          /\ newPurpleIds(b, cd, pays) # {})
    IN  Tuple([i \in 1..Len(needs) |->
            LET allPaidIds == paidIdsOf(pays[needs[i].patient.id])
                                \cup newPurpleIds(needs[i], cd, pays)
            IN  [patientId |-> needs[i].patient.id,
                 purpleEventIds |-> allPaidIds,
                 total |-> Cardinality(allPaidIds) * needs[i].patient.session_price]])

billingFor(bd, patientId) ==
    bd[CHOOSE i \in 1..Len(bd) : bd[i].patient.id = patientId]

\* the row marked paid whatever the patient's other sessions
alwaysPaid(bd, update) == TRUE

syncAllPaid(bd, update) ==
    Len(billingFor(bd, update.patientId).sessions) = Cardinality(update.purpleEventIds)

\* the write syncPayments issues for one update
syncWrite(bd, pays, update) ==
    Write("sync",
          IF pays[update.patientId].exists THEN "update" ELSE "insert",
          update.patientId, "",
          Row(syncAllPaid(bd, update), update.total,
              Cardinality(update.purpleEventIds), update.purpleEventIds),
          sessionView(billingFor(bd, update.patientId)))

syncWrites(bd, cd, pays) ==
    LET updates == syncUpdates(bd, cd, pays)
    IN  Tuple([i \in 1..Len(updates) |-> syncWrite(bd, pays, updates[i])])

RECURSIVE applyAll(_, _)
applyAll(table, ws) ==
    IF ws = << >> THEN table ELSE applyAll(applyWrite(table, Head(ws)), Tail(ws))

RECURSIVE allApplied(_, _)
allApplied(table, ws) ==
    IF ws = << >> THEN TRUE
    ELSE writeApplied(table, Head(ws)) /\ allApplied(applyWrite(table, Head(ws)), Tail(ws))

-----------------------------------------------------------------------------
(* Manual toggles of PatientBillingCard                                    *)

\* toggleSessionPaid: the write computed from the payment prop at click time
\* (toggleWriteByCount: the amount taken as count times the default price)
toggleWriteByCount(b, payment, eventId) ==
    LET currentPaidIds == paidIdsOf(payment)
        newPaidIds == IF eventId \in currentPaidIds THEN currentPaidIds \ {eventId}
                      ELSE currentPaidIds \cup {eventId}
    IN  Write("toggle", IF payment.exists THEN "update" ELSE "insert",
              b.patient.id, eventId,
              Row(Cardinality(newPaidIds) = Len(b.sessions),
                  Cardinality(newPaidIds) * b.patient.session_price,
                  Cardinality(newPaidIds), newPaidIds),
              sessionView(b))

toggleWrite(b, payment, eventId) ==
    LET currentPaidIds == paidIdsOf(payment)
        isPaidNow == eventId \in currentPaidIds
        newPaidIds == IF isPaidNow THEN currentPaidIds \ {eventId}
                      ELSE currentPaidIds \cup {eventId}
        newPaidCount == Cardinality(newPaidIds)
        newAmount == paidAmountOf(b, newPaidIds)
        newAllPaid == newPaidCount = Len(b.sessions)
    IN  Write("toggle", IF payment.exists THEN "update" ELSE "insert",
              b.patient.id, eventId,
              Row(newAllPaid, newAmount, newPaidCount, newPaidIds),
              sessionView(b))

\* colorId of the repaint request of toggleSessionPaid: paid -> default, unpaid -> purple
toggleColor(payment, eventId) ==
    IF eventId \in paidIdsOf(payment) THEN NoColor ELSE "3"

\* allPaid of the card
cardAllPaid(b, payment) ==
    LET paidCount == Cardinality(sessionIds(b) \cap paidIdsOf(payment))
    IN  paidCount = Len(b.sessions) /\ Len(b.sessions) > 0

\* the write of a mutation that leaves the amount at the total when it unmarks
markAllKeepsAmount(b, payment) ==
    LET markingAsPaid == ~cardAllPaid(b, payment)
        newPaidIds == IF markingAsPaid THEN sessionIds(b) ELSE {}
        newCount == IF markingAsPaid THEN Len(b.sessions) ELSE 0
    IN  Write("toggleAll", IF payment.exists THEN "update" ELSE "insert", b.patient.id, "",
              Row(markingAsPaid \/ ~payment.exists, b.total, newCount, newPaidIds),
              sessionView(b))

\* markAllMutation.mutationFn: the write
markAllWrite(b, payment) ==
    LET markingAsPaid == ~cardAllPaid(b, payment)
        newPaidIds == IF markingAsPaid THEN sessionIds(b) ELSE {}
        newAmount == IF markingAsPaid THEN b.total ELSE 0
        newCount == IF markingAsPaid THEN Len(b.sessions) ELSE 0
    IN  IF payment.exists
        THEN Write("toggleAll", "update", b.patient.id, "",
                   Row(markingAsPaid, newAmount, newCount, newPaidIds), sessionView(b))
        ELSE Write("toggleAll", "insert", b.patient.id, "",
                   Row(TRUE, newAmount, newCount, newPaidIds), sessionView(b))

markAllColor(b, payment) == IF ~cardAllPaid(b, payment) THEN "3" ELSE NoColor

\* what the user is told once the repaint call has returned or thrown: the
\* inner try/catch swallows a throw, a returned error is not looked at;
\* toggleSessionPaid then shows nothing, markAllMutation runs onSuccess
\* a failed repaint reaching the error toast
toastOnFailure(by, outcome) ==
    IF outcome # "ok" THEN "error" ELSE IF by = "toggleAll" THEN "success" ELSE "none"

toastAfterRepaint(by, outcome) ==
    IF by = "toggleAll" THEN "success" ELSE "none"

-----------------------------------------------------------------------------
(* google-calendar-update-colors: the colour PATCH of each requested event  *)

BATCH_SIZE == 3
MAX_RETRIES == 2

\* what one PATCH can come to: a 2xx answer, an error answer with a JSON body,
\* the 403 rateLimitExceeded answer, or a rejected fetch / an error body that
\* res.json() cannot parse
PatchOutcomes == {"ok", "error", "rateLimit", "throw"}

\* one requested event: the retries argument of the pending updateEvent call,
\* the outcomes of its PATCH attempts so far, and what its promise settled to
Item(retries, outcomes, settled) ==
    [retries |-> retries, outcomes |-> outcomes, settled |-> settled]

NewItem == Item(0, << >>, "pending")

Response(status, updated, failed, total) ==
    [status |-> status, updated |-> updated, failed |-> failed, total |-> total]

NoResponse == Response("none", 0, 0, 0)

\* no request is being served
NoRequest == [phase |-> "none", items |-> << >>, i |-> 0, response |-> NoResponse]

\* a rate-limit answer retried whatever the number of retries
alwaysRetry(outcome, retries) == outcome = "rateLimit"

mayRetry(outcome, retries) == outcome = "rateLimit" /\ retries < MAX_RETRIES

\* updateEvent after the answer to its PATCH: it returns success, returns a
\* failure, calls itself with retries + 1 after the backoff, or rejects
afterPatch(item, outcome) ==
    Item(IF mayRetry(outcome, item.retries) THEN item.retries + 1 ELSE item.retries,
         Append(item.outcomes, outcome),
         CASE outcome = "ok" -> "updated"
           [] outcome = "throw" -> "rejected"
           [] mayRetry(outcome, item.retries) -> "pending"
           [] OTHER -> "failed")

\* the items of the batch that starts at item i
batchOf(items, i) == {k \in 1..Len(items) : i <= k /\ k < i + BATCH_SIZE}

\* allResults.filter(r => r.success).length
updatedCount(items) == Cardinality({k \in 1..Len(items) : items[k].settled = "updated"})

-----------------------------------------------------------------------------
(* State machine of the reconciler                                         *)

MaxSteps == 2

RepaintOutcomes == {"ok", "error", "throw"}

NoWrite == Write("", "", "", "", NoRow, {})
NoLast == [w |-> NoWrite, prev |-> NoRow, ok |-> FALSE, repaint |-> "", toast |-> "none"]

\* an operation that is awaiting a response
Op(kind, patient, writes, colorId) ==
    [kind |-> kind, patient |-> patient, phase |-> "write", writes |-> writes,
     colorId |-> colorId]

EmptyTable == [p \in PatientIds |-> NoRow]

\* rows an earlier visit of the month can have left behind
InitTables == {EmptyTable, [EmptyTable EXCEPT !["p1"] = Row(FALSE, 0, 0, {})]}

\* the effect, run after the render that shows bd, cd and pays: nothing while
\* the month is in syncedMonthsRef; the month is added when there is nothing
\* to write; otherwise syncPayments starts and issues its first write
effectWrites(bd, cd, pays, synced) ==
    IF synced THEN << >> ELSE syncWrites(bd, cd, pays)

AutoSync(bd, cd, pays, synced) ==
    /\ syncedMonths' = (synced \/ effectWrites(bd, cd, pays, synced) = << >>)
    /\ inflight' = IF effectWrites(bd, cd, pays, synced) = << >> THEN inflight
                   ELSE inflight (+) SetToBag({
                            Op("sync", "", effectWrites(bd, cd, pays, synced), NoColor)})

\* the component has mounted, both queries have loaded and the first effect
\* has run
ReconcilerInit ==
    /\ calendarData \in [EventIds -> SyncColours]
    /\ billing = Billing(calendarData)
    /\ paymentsTable \in InitTables
    /\ payments = paymentsTable
    /\ syncedMonths = (effectWrites(billing, calendarData, payments, FALSE) = << >>)
    /\ inflight = IF syncedMonths THEN EmptyBag
                  ELSE SetToBag({Op("sync", "",
                           effectWrites(billing, calendarData, payments, FALSE), NoColor)})
    /\ last = NoLast
    /\ steps = 0

\* no pure function has been called
NoCall == [of |-> "none"]

Init ==
    /\ ReconcilerInit
    /\ arg = NoCall
    /\ result = NoCall
    /\ colorRequest = NoRequest

Replace(flying, op, op2) == (flying (-) SetToBag({op})) (+) SetToBag({op2})

\* a click on a session row of an expanded card
ToggleStart(i, eventId) ==
    /\ steps < MaxSteps
    /\ eventId \in sessionIds(billing[i])
    /\ inflight' = inflight (+) SetToBag({
           Op("toggle", billing[i].patient.id,
              <<toggleWrite(billing[i], payments[billing[i].patient.id], eventId)>>,
              toggleColor(payments[billing[i].patient.id], eventId))})
    /\ steps' = steps + 1
    /\ UNCHANGED <<calendarData, paymentsTable, payments, syncedMonths, last,
                   billing, arg, result, colorRequest>>

\* markAllMutation.mutate(); the button is disabled while the mutation is pending
ToggleAllStart(i) ==
    /\ steps < MaxSteps
    /\ \A op \in BagToSet(inflight) :
          ~(op.kind = "toggleAll" /\ op.patient = billing[i].patient.id)
    /\ inflight' = inflight (+) SetToBag({
           Op("toggleAll", billing[i].patient.id,
              <<markAllWrite(billing[i], payments[billing[i].patient.id])>>,
              markAllColor(billing[i], payments[billing[i].patient.id]))})
    /\ steps' = steps + 1
    /\ UNCHANGED <<calendarData, paymentsTable, payments, syncedMonths, last,
                   billing, arg, result, colorRequest>>

\* the payments table serves the write request an operation is awaiting and
\* the operation resumes: a toggle goes on to its repaint call; syncPayments
\* issues its next write or, after the last one, adds the month to
\* syncedMonthsRef
StoreWrite(op) ==
    LET w == Head(op.writes)
        rest == Tail(op.writes)
    IN  /\ op.phase = "write"
        /\ paymentsTable' = applyWrite(paymentsTable, w)
        /\ last' = [w |-> w, prev |-> paymentsTable[w.patient],
                    ok |-> writeApplied(paymentsTable, w), repaint |-> "", toast |-> "none"]
        /\ inflight' = IF op.kind # "sync"
                          THEN Replace(inflight, op, [op EXCEPT !.writes = rest,
                                                                !.phase = "repaint"])
                       ELSE IF rest # << >>
                          THEN Replace(inflight, op, [op EXCEPT !.writes = rest])
                       ELSE inflight (-) SetToBag({op})
        /\ syncedMonths' = IF op.kind = "sync" /\ rest = << >> THEN TRUE ELSE syncedMonths
        /\ UNCHANGED <<calendarData, payments, billing, steps, arg, result, colorRequest>>

\* the colour-repaint call of a toggle returns, returns an error, or throws
Repaint(op, outcome) ==
    /\ op.kind \in {"toggle", "toggleAll"} /\ op.phase = "repaint"
    /\ inflight' = inflight (-) SetToBag({op})
    /\ last' = [last EXCEPT !.repaint = outcome,
                             !.toast = toastAfterRepaint(op.kind, outcome)]
    /\ UNCHANGED <<calendarData, paymentsTable, payments, syncedMonths, billing,
                   steps, arg, result, colorRequest>>

\* the ["payments", month] query brings new data; the render is followed by
\* the effect
RefetchPayments ==
    /\ payments # paymentsTable
    /\ payments' = paymentsTable
    /\ AutoSync(billing, calendarData, paymentsTable, syncedMonths)
    /\ UNCHANGED <<calendarData, paymentsTable, last, billing, steps, arg, result, colorRequest>>

\* the calendar query brings an event in another colour; the render is
\* followed by the effect
CalendarRefetch(eventId, colorId) ==
    /\ steps < MaxSteps
    /\ calendarData[eventId] # colorId
    /\ calendarData' = [calendarData EXCEPT ![eventId] = colorId]
    /\ billing' = Billing(calendarData')
    /\ AutoSync(billing', calendarData', payments, syncedMonths)
    /\ steps' = steps + 1
    /\ UNCHANGED <<paymentsTable, payments, last, arg, result, colorRequest>>

\* the component is mounted again, with a fresh syncedMonthsRef, and its
\* effect runs; taken while no run of the old instance is in flight
Remount ==
    /\ steps < MaxSteps
    /\ syncedMonths
    /\ \A op \in BagToSet(inflight) : op.kind # "sync"
    /\ AutoSync(billing, calendarData, payments, FALSE)
    /\ steps' = steps + 1
    /\ UNCHANGED <<calendarData, paymentsTable, payments, last, billing, arg, result, colorRequest>>

Next ==
    \/ \E i \in 1..Len(billing), e \in EventIds : ToggleStart(i, e)
    \/ \E i \in 1..Len(billing) : ToggleAllStart(i)
    \/ \E op \in BagToSet(inflight) : StoreWrite(op)
    \/ \E op \in BagToSet(inflight), o \in RepaintOutcomes : Repaint(op, o)
    \/ RefetchPayments
    \/ \E e \in EventIds, c \in SyncColours : CalendarRefetch(e, c)
    \/ Remount

Spec == Init /\ [][Next]_vars

-----------------------------------------------------------------------------
(* findMatchingPatient on its own: labels, candidate lists, alias rows     *)

MaxCandidates == 2
MaxAliases == 2

Nick == <<"d", "n">>                          \* a nickname, no patient's name
DanaDoubled == <<"D", "a", "n", "n", "a">>    \* another patient, same name once normalized

Candidates ==
    { Patient("p1", Dana, 200, "per_session", NoParent),
      Patient("p3", Kid, 80, "per_session", "p2"),
      Patient("p4", DanaDoubled, 120, "per_session", NoParent) }

Labels == {Dana, DanaTyped, KidTyped, Nick, << >>}

AliasRows == [event_name : {DanaTyped, Nick}, patient_id : {"p1", "p3", "p4"}]

\* the sequences over S of length at most n
SeqsUpTo(S, n) == UNION {[1..k -> S] : k \in 0..n}

\* candidate lists hold each patient once
CandidateLists ==
    {ps \in SeqsUpTo(Candidates, MaxCandidates) :
        \A i, j \in 1..Len(ps) : ps[i].id = ps[j].id => i = j}

MatchInputs ==
    [of : {"findMatchingPatient"}, label : Labels, patients : CandidateLists,
     aliases : SeqsUpTo(AliasRows, MaxAliases)]

\* the reconciler at rest, while a pure function is exercised
Idle ==
    /\ calendarData = [e \in EventIds |-> NoColor]
    /\ billing = << >>
    /\ paymentsTable = EmptyTable
    /\ payments = EmptyTable
    /\ syncedMonths = TRUE
    /\ inflight = EmptyBag
    /\ last = NoLast
    /\ steps = 0

InitMatch ==
    /\ Idle
    /\ arg \in MatchInputs
    /\ result = NoCall
    /\ colorRequest = NoRequest

CallFindMatchingPatient ==
    /\ arg.of = "findMatchingPatient"
    /\ result = NoCall
    /\ result' = [of |-> "findMatchingPatient",
                  value |-> findMatchingPatient(arg.label, Tuple(arg.patients),
                                                aliasMap(Tuple(arg.aliases)))]
    /\ UNCHANGED <<arg, reconcilerVars, colorRequest>>

NextMatch == CallFindMatchingPatient

SpecMatch == InitMatch /\ [][NextMatch]_vars

\* the candidates whose normalized name is the normalized label
ExactCandidates == {i \in 1..Len(arg.patients) :
                       normalizeName(arg.patients[i].name) = normalizeName(arg.label)}

\* the patient id the alias rows give the normalized label: the last row
\* written for that key; "" when there is none
AliasedId ==
    LET rows == {i \in 1..Len(arg.aliases) :
                    normalizeName(arg.aliases[i].event_name) = normalizeName(arg.label)}
    IN  IF rows = {} THEN ""
        ELSE arg.aliases[CHOOSE i \in rows : \A j \in rows : j <= i].patient_id

\* C3: exact match beats alias.  If some candidate's normalized name equals
\* the normalized label, the result is the first such candidate in list order
\* with viaAlias = FALSE, whatever the alias map says; otherwise, if the alias
\* map sends the normalized label to a patient among the candidates, the result
\* is that patient with viaAlias = TRUE; otherwise the result is none.
C3_ExactMatchBeatsAlias ==
    result.of = "findMatchingPatient" =>
        IF ExactCandidates # {}
        THEN /\ result.value.viaAlias = FALSE
             /\ result.value.patient =
                    arg.patients[CHOOSE i \in ExactCandidates :
                                     \A j \in ExactCandidates : i <= j]
        ELSE IF \E i \in 1..Len(arg.patients) : arg.patients[i].id = AliasedId
        THEN /\ result.value.viaAlias = TRUE
             /\ result.value.patient.id = AliasedId
             /\ \E i \in 1..Len(arg.patients) : arg.patients[i] = result.value.patient
        ELSE result.value = NoMatch

\* the label matches one candidate of the list exactly and an alias row sends
\* it to the other candidate; the exact candidate is returned
C3_Witness ==
    /\ result.of = "findMatchingPatient"
    /\ Cardinality(ExactCandidates) = 1
    /\ Len(arg.patients) = 2
    /\ AliasedId # ""
    /\ \E i \in 1..Len(arg.patients) :
          arg.patients[i].id = AliasedId /\ i \notin ExactCandidates
    /\ result.value.viaAlias = FALSE
    /\ result.value.patient.id # AliasedId

-----------------------------------------------------------------------------
(* The monthly billing assembly on its own: event lists of every colour    *)

MaxEvents == 2

EventIdAt == <<"e1", "e2", "e3", "e4">>

\* colours an event can carry: unset, yellow, purple, cancelled, another
AssemblyColours == {NoColor, "5", "3", "4", "2"}

\* a name of white space only, which the "required" name field accepts
Blank == <<" ">>

Happenings == [summary : {Dana, KidTyped, Nick, Blank}, colorId : AssemblyColours]

NickAlias == << [event_name |-> Nick, patient_id |-> "p1"] >>
NickChildAlias == << [event_name |-> Nick, patient_id |-> "p3"] >>

\* a price override of 0 for the first event
FreeSession == << [event_id |-> "e1", custom_price |-> 0] >>

RosterWithBlank == Roster \o << Patient("p5", Blank, 50, "per_session", NoParent) >>

Rosters == {Roster, RosterWithBlank}

\* the label Nick put on the ignore list
NickIgnored == << [event_name |-> Nick] >>

AssemblyInputs ==
    [of : {"billingData"}, patients : Rosters,
     happenings : SeqsUpTo(Happenings, MaxEvents),
     aliases : {Aliases, NickAlias, NickChildAlias},
     overrides : {<< >>, SessionOverrides, FreeSession},
     ignored : {<< >>, NickIgnored}]

\* calendarData.events of an input: the i-th happening is event EventIdAt[i]
eventsOfInput(hs) ==
    Tuple([i \in 1..Len(hs) |-> Event(EventIdAt[i], hs[i].summary, hs[i].colorId)])

InitAssembly ==
    /\ Idle
    /\ arg \in AssemblyInputs
    /\ result = NoCall
    /\ colorRequest = NoRequest

CallBillingData ==
    /\ arg.of = "billingData"
    /\ result = NoCall
    /\ result' = [of |-> "billingData",
                  value |-> billingData(arg.patients, eventsOfInput(arg.happenings),
                                        aliasMap(arg.aliases), overrideMap(arg.overrides)),
                  unmatched |-> filteredUnmatched(arg.patients,
                                    eventsOfInput(arg.happenings), aliasMap(arg.aliases),
                                    ignoredSet(arg.ignored))]
    /\ UNCHANGED <<arg, reconcilerVars, colorRequest>>

NextAssembly == CallBillingData

SpecAssembly == InitAssembly /\ [][NextAssembly]_vars

\* the positions of the input's events that carry the cancelled colour
CancelledEventIds ==
    {EventIdAt[i] : i \in {j \in 1..Len(arg.happenings) :
                              arg.happenings[j].colorId = CANCELLED_COLOR_ID}}

\* the input's event list without its cancelled events
KeptEvents ==
    SelectSeq(eventsOfInput(arg.happenings), LAMBDA e : e.colorId # CANCELLED_COLOR_ID)

\* C4: no event whose colorId is "4" appears in the sessions of any entry of
\* the billing data, and none contributes to a total: every total is the sum of
\* the prices of the entry's sessions, and the billing data is what the same
\* list gives once its cancelled events are taken out.
C4_NoCancelledSession ==
    result.of = "billingData" =>
        /\ \A i \in 1..Len(result.value) :
              /\ \A k \in 1..Len(result.value[i].sessions) :
                    result.value[i].sessions[k].eventId \notin CancelledEventIds
              /\ result.value[i].total =
                    SumSeq([k \in 1..Len(result.value[i].sessions) |->
                               result.value[i].sessions[k].sessionPrice])
        /\ result.value = billingData(arg.patients, KeptEvents, aliasMap(arg.aliases),
                                      overrideMap(arg.overrides))

\* a cancelled event that names a patient, next to a billed session
C4_Witness ==
    /\ result.of = "billingData"
    /\ \E j \in 1..Len(arg.happenings) :
          /\ arg.happenings[j].colorId = CANCELLED_COLOR_ID
          /\ arg.happenings[j].summary = Dana
    /\ Len(result.value) = 1
    /\ Len(result.value[1].sessions) = 1

\* the patient a happening's label names, looked up in the whole roster
NamedPatient(h) ==
    findMatchingPatient(h.summary, arg.patients, aliasMap(arg.aliases)).patient

\* the entries of the result whose patient is p
EntriesOf(p) == {i \in 1..Len(result.value) : result.value[i].patient.id = p}

\* C13: an event is billable exactly when its colorId is not "4": every event
\* of any other colorId whose label names a standalone patient, or a child of
\* an institution, yields a session in the billing of that patient, or of the
\* institution.
C13_EveryUncancelledEventBilled ==
    result.of = "billingData" =>
        \A j \in 1..Len(arg.happenings) :
            LET named == NamedPatient(arg.happenings[j])
                owner == IF named.parent_patient_id # NoParent
                         THEN named.parent_patient_id ELSE named.id
            IN  (arg.happenings[j].colorId # CANCELLED_COLOR_ID /\ named # NoPatient)
                    => \E i \in EntriesOf(owner) :
                          \E k \in 1..Len(result.value[i].sessions) :
                              result.value[i].sessions[k].eventId = EventIdAt[j]

\* the institutions of the roster and, for each, its children
Institutions == {i \in 1..Len(arg.patients) : arg.patients[i].billing_type = "institution"}
ChildrenOf(i) == {c \in 1..Len(arg.patients) :
                     arg.patients[c].parent_patient_id = arg.patients[i].id}

\* the sessions of the entries of patient p that come from event e
SessionsFrom(p, e) ==
    {<<i, k>> \in (1..Len(result.value)) \X (1..MaxEvents + 1) :
        /\ result.value[i].patient.id = p
        /\ k <= Len(result.value[i].sessions)
        /\ result.value[i].sessions[k].eventId = e}

\* C14: institution aggregation.  For an institution I and a child C of I,
\* every event that is not cancelled and whose label names C, exactly or via
\* an alias, yields a session in the billing of I with childPatientName = the
\* name of C; a session of an event that names I itself carries no
\* childPatientName; and C is the patient of no billing entry.
C14_InstitutionAggregation ==
    result.of = "billingData" =>
        \A i \in Institutions :
            LET I == arg.patients[i] IN
            /\ \A c \in ChildrenOf(i), j \in 1..Len(arg.happenings) :
                  (/\ arg.happenings[j].colorId # CANCELLED_COLOR_ID
                   /\ NamedPatient(arg.happenings[j]) = arg.patients[c])
                  => /\ SessionsFrom(I.id, EventIdAt[j]) # {}
                     /\ \A x \in SessionsFrom(I.id, EventIdAt[j]) :
                           result.value[x[1]].sessions[x[2]].childPatientName
                               = arg.patients[c].name
            /\ \A j \in 1..Len(arg.happenings) :
                  NamedPatient(arg.happenings[j]) = I
                  => \A x \in SessionsFrom(I.id, EventIdAt[j]) :
                        result.value[x[1]].sessions[x[2]].childPatientName = NoChild
            /\ \A c \in ChildrenOf(i) : EntriesOf(arg.patients[c].id) = {}

\* the price the assembly is to give the session of event e matched to patient m
EffectivePrice(e, m) ==
    LET rows == {r \in 1..Len(arg.overrides) : arg.overrides[r].event_id = e}
    IN  IF rows # {}
        THEN arg.overrides[CHOOSE r \in rows : \A q \in rows : q <= r].custom_price
        ELSE m.session_price

\* the event of the input with id e
HappeningOf(e) == arg.happenings[CHOOSE j \in 1..Len(arg.happenings) : EventIdAt[j] = e]

\* C15: in every billing entry produced, the price of each session is the
\* override stored for its event id when there is one, an override of 0
\* included, and otherwise the session price of the patient that matched (the
\* child under an institution); the total is the sum of the session prices.
C15_SessionPriceAndTotal ==
    result.of = "billingData" =>
        \A i \in 1..Len(result.value) :
            LET b == result.value[i] IN
            /\ \A k \in 1..Len(b.sessions) :
                  b.sessions[k].sessionPrice =
                      EffectivePrice(b.sessions[k].eventId,
                                     NamedPatient(HappeningOf(b.sessions[k].eventId)))
            /\ b.total = SumSeq([k \in 1..Len(b.sessions) |-> b.sessions[k].sessionPrice])

\* an institution billed for a session of its child at the child's price and
\* for a session overridden to 0: the total is not two sessions at the
\* institution's price
C15_Witness ==
    /\ result.of = "billingData"
    /\ arg.overrides = FreeSession
    /\ \E i \in 1..Len(result.value) :
          /\ result.value[i].patient.id = "p2"
          /\ Len(result.value[i].sessions) = 2
          /\ result.value[i].sessions[1].sessionPrice = 0
          /\ result.value[i].sessions[2].sessionPrice = 80
          /\ result.value[i].sessions[2].childPatientName = Kid
          /\ result.value[i].total = 80

\* the events of the input whose summary is empty once trimmed
BlankEvents == {j \in 1..Len(arg.happenings) : trim(arg.happenings[j].summary) = << >>}

\* the input's event list without those events
LabelledEvents ==
    SelectSeq(eventsOfInput(arg.happenings), LAMBDA e : trim(e.summary) # << >>)

\* C16: whatever the roster and the alias table, an event whose summary is
\* empty or white space only is matched to no patient, so it is a session of
\* no billing entry, and it neither makes nor counts towards an entry of the
\* unmatched-label list: no entry has the empty label, and the list is the one
\* the other events give on their own.
C16_BlankSummaryNeverMatched ==
    result.of = "billingData" =>
        /\ \A j \in BlankEvents, i \in 1..Len(result.value) :
              \A k \in 1..Len(result.value[i].sessions) :
                  result.value[i].sessions[k].eventId # EventIdAt[j]
        /\ << >> \notin DOMAIN result.unmatched
        /\ result.unmatched =
               filteredUnmatched(arg.patients, LabelledEvents, aliasMap(arg.aliases),
                                 ignoredSet(arg.ignored))

\* the events of the input, of any colour, whose trimmed summary is the label
EventsLabelled(name) ==
    {j \in 1..Len(arg.happenings) : trim(arg.happenings[j].summary) = name}

\* C17: for every label of the unmatched-label list, the count is the number
\* of events, of any colour, that carry the label and matched no patient, each
\* counted once; and no listed label is on the ignore list or answers to a
\* patient by exact name or alias.
C17_UnmatchedCounts ==
    result.of = "billingData" =>
        \A name \in DOMAIN result.unmatched :
            /\ name # << >>
            /\ result.unmatched[name].count =
                   Cardinality({j \in EventsLabelled(name) :
                                   NamedPatient(arg.happenings[j]) = NoPatient})
            /\ normalizeName(name) \notin ignoredSet(arg.ignored)
            /\ findMatchingPatient(name, arg.patients, aliasMap(arg.aliases)) = NoMatch

-----------------------------------------------------------------------------
(* normalizeName on its own: every short string over a small alphabet       *)

MaxLen == 3

\* a letter in both cases, a space, a niqqud mark
Alphabet == {"a", "A", " ", "~"}

NameInputs == [of : {"normalizeName"}, name : SeqsUpTo(Alphabet, MaxLen)]

InitNormalize ==
    /\ Idle
    /\ arg \in NameInputs
    /\ result = NoCall
    /\ colorRequest = NoRequest

CallNormalizeName ==
    /\ arg.of = "normalizeName"
    /\ result = NoCall
    /\ result' = [of |-> "normalizeName", value |-> normalizeName(Tuple(arg.name))]
    /\ UNCHANGED <<arg, reconcilerVars, colorRequest>>

NextNormalize == CallNormalizeName

SpecNormalize == InitNormalize /\ [][NextNormalize]_vars

\* s with c put in after its first i characters
InsertAt(s, i, c) == SubSeq(s, 1, i) \o <<c>> \o SubSeq(s, i + 1, Len(s))

otherCase(c) == IF c = "a" THEN "A" ELSE IF c = "A" THEN "a" ELSE c

\* the strings that differ from s by the case of one letter, by one more
\* white space at an end or next to a white space, by one niqqud mark put in
\* anywhere, or by one character repeated
Respellings(s) ==
    {[s EXCEPT ![i] = otherCase(s[i])] : i \in 1..Len(s)}
    \cup {<<" ">> \o s, s \o <<" ">>}
    \cup {InsertAt(s, i, " ") : i \in {x \in 1..Len(s) : s[x] = " "}}
    \cup {InsertAt(s, i, "~") : i \in 0..Len(s)}
    \cup {InsertAt(s, i, s[i]) : i \in 1..Len(s)}

\* C18: normalizeName gives the same key to any two strings that differ only
\* by letter case, by leading, trailing or repeated white space, by niqqud
\* marks put in at any position, or by a character repeated consecutively; it
\* is idempotent; and it maps the empty string to the empty string.
C18_NormalizeNameInsensitive ==
    result.of = "normalizeName" =>
        /\ \A t \in Respellings(arg.name) : normalizeName(t) = result.value
        /\ normalizeName(result.value) = result.value
        /\ (arg.name = << >> => result.value = << >>)

-----------------------------------------------------------------------------
(* computeAnalysis: the monthly financial report                           *)
(* Numbers are exact fractions n/d in lowest terms with d > 0; the rounding *)
(* of floating-point arithmetic is not modelled.                            *)

RECURSIVE gcd(_, _)
gcd(a, b) == IF b = 0 THEN a ELSE gcd(b, a % b)

abs(x) == IF x < 0 THEN 0 - x ELSE x

Frac(n, d) ==
    LET g == gcd(abs(n), abs(d))
        sign == IF d < 0 THEN 0 - 1 ELSE 1
    IN  [n |-> sign * (n \div g), d |-> sign * (d \div g)]

Num(n) == [n |-> n, d |-> 1]

plus(a, b) == Frac(a.n * b.d + b.n * a.d, a.d * b.d)
minus(a, b) == Frac(a.n * b.d - b.n * a.d, a.d * b.d)
times(a, b) == Frac(a.n * b.n, a.d * b.d)
over(a, b) == Frac(a.n * b.d, a.d * b.n)
mathAbs(a) == [n |-> abs(a.n), d |-> a.d]
less(a, b) == a.n * b.d < b.n * a.d

RECURSIVE sumFrac(_)
sumFrac(xs) == IF xs = << >> THEN Num(0) ELSE plus(Head(xs), sumFrac(Tail(xs)))

\* commission_value: null, or a number
Null == << >>
Value(v) == <<v>>

AnalysisPatient(id, enabled, type, value) ==
    [id |-> id, commission_enabled |-> enabled, commission_type |-> type,
     commission_value |-> value]

AnalysisPayment(patient, amount, status) ==
    [patient_id |-> patient, amount |-> amount, status |-> status]

GlobalDeduction(type, value, enabled) ==
    [type |-> type, value |-> value, enabled |-> enabled]

isRefund(p) == p.status = "refunded" \/ p.status = "canceled"

\* allPayments.filter(p => p.status === "paid") unless includeRefunds
filteredPayments(allPayments, includeRefunds) ==
    IF ~includeRefunds THEN SelectSeq(allPayments, LAMBDA p : p.status = "paid")
    ELSE allPayments

\* the keys of byPatient, in insertion order
byPatientKeys(filtered) ==
    LET firsts == SelectSeq([i \in 1..Len(filtered) |-> i],
                     LAMBDA i : \A j \in 1..(i - 1) :
                                   filtered[j].patient_id # filtered[i].patient_id)
    IN  Tuple([k \in 1..Len(firsts) |-> filtered[firsts[k]].patient_id])

\* refundsByPatient.get(patientId) || { count: 0, amount: 0 }
refundsOf(allPayments, patientId) ==
    LET mine == SelectSeq(allPayments, LAMBDA p : isRefund(p) /\ p.patient_id = patientId)
    IN  [count |-> Len(mine),
         amount |-> sumFrac([i \in 1..Len(mine) |-> mathAbs(Num(mine[i].amount))])]

RECURSIVE patientGross(_, _)
\* the reduce over the patient's payments
patientGross(patientPayments, netAfterRefunds) ==
    IF patientPayments = << >> THEN Num(0)
    ELSE LET p == patientPayments[Len(patientPayments)]
             sum == patientGross(SubSeq(patientPayments, 1, Len(patientPayments) - 1),
                                 netAfterRefunds)
         IN  IF netAfterRefunds /\ isRefund(p) THEN minus(sum, mathAbs(Num(p.amount)))
             ELSE plus(sum, Num(p.amount))

\* the tax taken as a share of the gross on top of it
vatOnTop(gross, r) == times(gross, r)

vatOf(gross, r) == over(times(gross, r), plus(Num(1), r))

\* the commission taken whether or not it is enabled
commissionWhetherEnabled(patient, base) ==
    IF patient.commission_value # Null
    THEN IF patient.commission_type = "percent"
         THEN times(base, Frac(patient.commission_value[1], 100))
         ELSE Num(patient.commission_value[1])
    ELSE Num(0)

commissionOf(patient, base) ==
    IF patient.commission_enabled /\ patient.commission_value # Null
    THEN IF patient.commission_type = "percent"
         THEN times(base, Frac(patient.commission_value[1], 100))
         ELSE Num(patient.commission_value[1])
    ELSE Num(0)

patientAnalysis(patient, patientPayments, refunds, r, netAfterRefunds) ==
    LET gross == patientGross(patientPayments, netAfterRefunds)
        vat == vatOf(gross, r)
        base == minus(gross, vat)
        commission == commissionOf(patient, base)
    IN  [patient |-> patient, gross |-> gross, vat |-> vat, base |-> base,
         commission |-> commission, netAfterCommission |-> minus(base, commission),
         payments |-> patientPayments,
         refundCount |-> refunds.count, refundAmount |-> refunds.amount]

RECURSIVE insertByGross(_, _)
insertByGross(sorted, a) ==
    IF sorted = << >> THEN <<a>>
    ELSE IF ~less(Head(sorted).gross, a.gross)
         THEN <<Head(sorted)>> \o insertByGross(Tail(sorted), a)
         ELSE <<a>> \o sorted

RECURSIVE sortByGross(_)
\* .sort((a, b) => b.gross - a.gross)
sortByGross(as) ==
    IF as = << >> THEN << >>
    ELSE insertByGross(sortByGross(SubSeq(as, 1, Len(as) - 1)), as[Len(as)])

deductionAmount(d, monthBaseAfterVAT) ==
    IF d.type = "percent" THEN times(monthBaseAfterVAT, Frac(d.value, 100))
    ELSE Num(d.value)

computeAnalysis(allPayments, patients, vatRate, deductions, includeRefunds, netAfterRefunds) ==
    LET r == Frac(vatRate, 100)
        filtered == filteredPayments(allPayments, includeRefunds)
        known == SelectSeq(byPatientKeys(filtered),
                           LAMBDA id : \E i \in 1..Len(patients) : patients[i].id = id)
        analyses == Tuple([k \in 1..Len(known) |->
            patientAnalysis(
                patients[CHOOSE i \in 1..Len(patients) :
                            /\ patients[i].id = known[k]
                            /\ \A j \in (i + 1)..Len(patients) : patients[j].id # known[k]],
                SelectSeq(filtered, LAMBDA p : p.patient_id = known[k]),
                refundsOf(allPayments, known[k]), r, netAfterRefunds)])
        totalGross == sumFrac([k \in 1..Len(analyses) |-> analyses[k].gross])
        commissionsTotal == sumFrac([k \in 1..Len(analyses) |-> analyses[k].commission])
        totalVAT == vatOf(totalGross, r)
        monthBaseAfterVAT == minus(totalGross, totalVAT)
        enabled == SelectSeq(deductions, LAMBDA d : d.enabled)
        deductionResults == Tuple([k \in 1..Len(enabled) |->
                                      deductionAmount(enabled[k], monthBaseAfterVAT)])
        globalDeductionsTotal == sumFrac(deductionResults)
    IN  [totalGross |-> totalGross,
         totalVAT |-> totalVAT,
         monthBaseAfterVAT |-> monthBaseAfterVAT,
         deductionResults |-> deductionResults,
         globalDeductionsTotal |-> globalDeductionsTotal,
         commissionsTotal |-> commissionsTotal,
         net |-> minus(minus(monthBaseAfterVAT, globalDeductionsTotal), commissionsTotal),
         patientAnalyses |-> sortByGross(analyses),
         paymentCount |-> Len(filtered),
         totalRefundCount |-> SumSeq([k \in 1..Len(analyses) |-> analyses[k].refundCount]),
         totalRefundAmount |-> sumFrac([k \in 1..Len(analyses) |-> analyses[k].refundAmount])]

MaxPayments == 2

\* a patient with a 10 percent commission, one with a fixed commission of 50,
\* one whose 10 percent commission is switched off, one with no value set
AnalysisRoster ==
    << AnalysisPatient("p1", TRUE, "percent", Value(10)),
       AnalysisPatient("p2", TRUE, "fixed", Value(50)),
       AnalysisPatient("p3", FALSE, "percent", Value(10)),
       AnalysisPatient("p4", TRUE, "percent", Null) >>

\* payments of the month; "p9" is a patient that is not in the roster
PaymentRows ==
    [patient_id : {"p1", "p2", "p3", "p4", "p9"}, amount : {300, 0 - 100},
     status : {"paid", "refunded", "canceled"}]

DeductionLists ==
    { << >>,
      << GlobalDeduction("percent", 10, TRUE), GlobalDeduction("fixed", 40, TRUE),
         GlobalDeduction("fixed", 1000, FALSE) >> }

AnalysisInputs ==
    [of : {"computeAnalysis"}, payments : SeqsUpTo(PaymentRows, MaxPayments),
     vatRate : {0, 17}, deductions : DeductionLists,
     includeRefunds : BOOLEAN, netAfterRefunds : BOOLEAN]

InitAnalysis ==
    /\ Idle
    /\ arg \in AnalysisInputs
    /\ result = NoCall
    /\ colorRequest = NoRequest

CallComputeAnalysis ==
    /\ arg.of = "computeAnalysis"
    /\ result = NoCall
    /\ result' = [of |-> "computeAnalysis",
                  value |-> computeAnalysis(Tuple(arg.payments), AnalysisRoster, arg.vatRate,
                                            arg.deductions, arg.includeRefunds,
                                            arg.netAfterRefunds)]
    /\ UNCHANGED <<arg, reconcilerVars, colorRequest>>

NextAnalysis == CallComputeAnalysis

SpecAnalysis == InitAnalysis /\ [][NextAnalysis]_vars

Analyses == result.value.patientAnalyses

\* vat is the tax included in gross at the rate of the input, base the rest
VatIncluded(gross, vat, base) ==
    /\ times(vat, Num(100 + arg.vatRate)) = times(gross, Num(arg.vatRate))
    /\ base = minus(gross, vat)
    /\ (arg.vatRate = 0 => vat = Num(0) /\ base = gross)
    /\ (arg.vatRate # 0 /\ gross # Num(0) => vat # times(gross, Frac(arg.vatRate, 100)))

\* C21: computeAnalysis computes VAT as included in gross.  For every patient
\* analysis and for the month totals, vat * (100 + vatRate) = gross * vatRate
\* and base = gross - vat, never vat = gross * r; with vatRate = 0, vat = 0 and
\* base = gross; and the per-patient vat values add up to totalVAT.
C21_VatIncludedInGross ==
    result.of = "computeAnalysis" =>
        /\ \A k \in 1..Len(Analyses) :
              VatIncluded(Analyses[k].gross, Analyses[k].vat, Analyses[k].base)
        /\ VatIncluded(result.value.totalGross, result.value.totalVAT,
                       result.value.monthBaseAfterVAT)
        /\ sumFrac([k \in 1..Len(Analyses) |-> Analyses[k].vat]) = result.value.totalVAT

\* two patients with a payment of 300 each at 17 percent: the month's tax is
\* 600 * 17 / 117
C21_Witness ==
    /\ result.of = "computeAnalysis"
    /\ arg.vatRate = 17
    /\ Len(Analyses) = 2
    /\ Analyses[1].gross = Num(300) /\ Analyses[2].gross = Num(300)
    /\ Analyses[1].vat = Frac(1700, 39)
    /\ result.value.totalVAT = Frac(3400, 39)

\* the payments of the input that belong to patient id
PaymentsOfPatient(id) == SelectSeq(arg.payments, LAMBDA p : p.patient_id = id)

\* C22: whenever includeRefunds is true, every refunded or canceled payment
\* of a patient nets against the patient's gross: gross is the sum of the
\* amounts of the patient's other payments minus the sum of the absolute
\* amounts of its refunded and canceled payments.
C22_RefundsNetAgainstGross ==
    (result.of = "computeAnalysis" /\ arg.includeRefunds) =>
        \A k \in 1..Len(Analyses) :
            LET mine == PaymentsOfPatient(Analyses[k].patient.id)
            IN  Analyses[k].gross =
                    sumFrac([i \in 1..Len(mine) |->
                                IF isRefund(mine[i]) THEN Num(0 - abs(mine[i].amount))
                                ELSE Num(mine[i].amount)])

\* the commission the claim gives a patient whose base is base
ClaimedCommission(patient, base) ==
    IF ~patient.commission_enabled \/ patient.commission_value = Null THEN Num(0)
    ELSE IF patient.commission_type = "percent"
    THEN over(times(base, Num(patient.commission_value[1])), Num(100))
    ELSE Num(patient.commission_value[1])

\* the total of the enabled deductions of the input on a month base
ClaimedDeductions(base) ==
    sumFrac([i \in 1..Len(arg.deductions) |->
                IF ~arg.deductions[i].enabled THEN Num(0)
                ELSE IF arg.deductions[i].type = "percent"
                THEN over(times(base, Num(arg.deductions[i].value)), Num(100))
                ELSE Num(arg.deductions[i].value)])

\* C23: net = monthBaseAfterVAT - globalDeductionsTotal - the sum of the
\* commissions of the analysed patients, where totalGross is the sum of the
\* per-patient gross values, globalDeductionsTotal sums only the enabled
\* deductions (percent ones of monthBaseAfterVAT, fixed ones flat), and a
\* patient's commission is base * commissionValue / 100 for type percent,
\* commissionValue for type fixed, and 0 when the commission is disabled, so
\* that netAfterCommission = base.
C23_NetOfDeductionsAndCommissions ==
    result.of = "computeAnalysis" =>
        /\ result.value.totalGross = sumFrac([k \in 1..Len(Analyses) |-> Analyses[k].gross])
        /\ result.value.globalDeductionsTotal =
               ClaimedDeductions(result.value.monthBaseAfterVAT)
        /\ \A k \in 1..Len(Analyses) :
              /\ Analyses[k].commission =
                     ClaimedCommission(Analyses[k].patient, Analyses[k].base)
              /\ Analyses[k].netAfterCommission =
                     minus(Analyses[k].base, Analyses[k].commission)
              /\ (~Analyses[k].patient.commission_enabled
                     => Analyses[k].netAfterCommission = Analyses[k].base)
        /\ result.value.net =
               minus(minus(result.value.monthBaseAfterVAT,
                           result.value.globalDeductionsTotal),
                     sumFrac([k \in 1..Len(Analyses) |-> Analyses[k].commission]))

\* a month with deductions, a patient with a percent commission and a patient
\* whose commission is switched off
C23_Witness ==
    /\ result.of = "computeAnalysis"
    /\ arg.deductions # << >>
    /\ arg.vatRate = 17
    /\ Len(Analyses) = 2
    /\ \E k \in 1..2 : Analyses[k].patient.id = "p1" /\ Analyses[k].commission # Num(0)
    /\ \E k \in 1..2 : /\ Analyses[k].patient.id = "p3"
                        /\ Analyses[k].base # Num(0)
                        /\ Analyses[k].netAfterCommission = Analyses[k].base
    /\ result.value.globalDeductionsTotal # Num(0)

-----------------------------------------------------------------------------
(* The billing assembly on rosters whose match sets overlap                 *)

\* a second patient whose name is Dana's once normalized
SameNameRoster == Roster \o << Patient("p6", DanaDoubled, 120, "per_session", NoParent) >>

\* Kid is an institution of its own and a child of Gan
NestedRoster ==
    << Patient("p1", Dana, 200, "per_session", NoParent),
       Patient("p2", Gan, 100, "institution", NoParent),
       Patient("p3", Kid, 80, "institution", "p2") >>

\* the label that is Kid's name, given to Dana as an alias
KidLabelAlias == << [event_name |-> KidTyped, patient_id |-> "p1"] >>

OverlapInputs ==
    [of : {"billingData"}, patients : {Roster, SameNameRoster, NestedRoster},
     happenings : SeqsUpTo([summary : {Dana, KidTyped, Nick},
                            colorId : {NoColor, CANCELLED_COLOR_ID}], MaxEvents),
     aliases : {Aliases, NickAlias, KidLabelAlias},
     overrides : {<< >>}, ignored : {<< >>}]

InitOverlap ==
    /\ Idle
    /\ arg \in OverlapInputs
    /\ result = NoCall
    /\ colorRequest = NoRequest

SpecOverlap == InitOverlap /\ [][NextAssembly]_vars

\* the entries of the result with a session of event e
EntriesWith(e) ==
    {i \in 1..Len(result.value) :
        \E k \in 1..Len(result.value[i].sessions) :
            result.value[i].sessions[k].eventId = e}

\* C26: whatever the roster, the aliases and the events, a billable event is
\* in the sessions of at most one PatientBilling of the month: also when an
\* alias gives its label to one patient while the label is another patient's
\* name, when two patients have the same normalized name, and when a patient
\* is an institution and the child of another institution.
C26_EventBilledAtMostOnce ==
    result.of = "billingData" =>
        \A j \in 1..Len(arg.happenings) : Cardinality(EntriesWith(EventIdAt[j])) <= 1

-----------------------------------------------------------------------------
(* WeeklyFinance.sessionsByDay and PerPatientTab.sessionDatesByPatient      *)
(* An instant is a number of hours since the midnight (UTC) that starts a   *)
(* Sunday; tz is the offset of the browser's time zone in hours.            *)

HoursPerDay == 24
DaysPerWeek == 7

\* event.start: { dateTime }, { date }, or neither
StartAt(t) == [kind |-> "dateTime", at |-> t]
StartOn(day) == [kind |-> "date", at |-> day]
NoStart == [kind |-> "none", at |-> 0]

TimedEvent(id, summary, colorId, start) ==
    [id |-> id, summary |-> summary, colorId |-> colorId, start |-> start]

\* the day of the local calendar that holds instant t
localDay(t, tz) == (t + tz) \div HoursPerDay

\* getWeekDates: the seven days of the week of today, from Sunday on
getWeekDates(weekOffset, now, tz) ==
    LET today == localDay(now, tz)
        sunday == today - (today % DaysPerWeek) + weekOffset * DaysPerWeek
    IN  [i \in 1..DaysPerWeek |-> sunday + i - 1]

\* new Date(dateTime), or new Date(date + "T00:00:00"): local midnight
eventDateLocal(start, tz) ==
    IF start.kind = "dateTime" THEN start.at ELSE start.at * HoursPerDay - tz

\* new Date(dateTime), or new Date(date): midnight UTC
eventDateUTC(start, tz) ==
    IF start.kind = "dateTime" THEN start.at ELSE start.at * HoursPerDay

\* a patient row as WeeklyFinance selects it
WeeklyPatient(id, name, price, enabled, type, value) ==
    [id |-> id, name |-> name, session_price |-> price, commission_enabled |-> enabled,
     commission_type |-> type, commission_value |-> value]

\* overrideMap.has(event.id) ? overrideMap.get(event.id) : matchedPatient.session_price
basePrice(event, matchedPatient, omap) ==
    IF event.id \in DOMAIN omap THEN omap[event.id] ELSE matchedPatient.session_price

\* the loop of sessionsByDay without its comparison with now
weeklyEventsAnyTime(events, weekDates, now, tz, patients, amap) ==
    SelectSeq(events, LAMBDA e :
        /\ e.start.kind # "none"
        /\ \E i \in 1..DaysPerWeek :
              weekDates[i] = localDay(eventDateLocal(e.start, tz), tz)
        /\ findMatchingPatient(e.summary, patients, amap) # NoMatch)
\* the events the loop of sessionsByDay does not skip
weeklyEvents(events, weekDates, now, tz, patients, amap) ==
    SelectSeq(events, LAMBDA e :
        /\ e.start.kind # "none"
        /\ ~(eventDateLocal(e.start, tz) > now)
        /\ \E i \in 1..DaysPerWeek :
              weekDates[i] = localDay(eventDateLocal(e.start, tz), tz)
        /\ findMatchingPatient(e.summary, patients, amap) # NoMatch)

\* what the loop pushes for an event: the price after commission, the summary
weeklySession(e, patients, amap, omap) ==
    LET matchedPatient == findMatchingPatient(e.summary, patients, amap).patient
        base == basePrice(e, matchedPatient, omap)
    IN  [price |-> minus(Num(base), commissionOf(matchedPatient, Num(base))),
         summary |-> e.summary]

sessionsByDay(events, weekDates, now, tz, patients, amap, omap) ==
    LET kept == weeklyEvents(events, weekDates, now, tz, patients, amap)
    IN  Tuple([i \in 1..DaysPerWeek |->
            LET ofDay == SelectSeq(kept, LAMBDA e :
                             weekDates[i] = localDay(eventDateLocal(e.start, tz), tz))
            IN  Tuple([k \in 1..Len(ofDay) |->
                          weeklySession(ofDay[k], patients, amap, omap)])])

\* the patient id PerPatientTab files an event under, "" if none
matchedPatientId(summary, analysed, amap) ==
    LET key == normalizeName(summary)
        exact == firstExact(analysed, key)
    IN  IF exact # 0 THEN analysed[exact].id
        ELSE IF key \in DOMAIN amap THEN amap[key]
        ELSE ""

\* the events the loop of sessionDatesByPatient files
datedEvents(events, now, tz, analysed, amap) ==
    SelectSeq(events, LAMBDA e :
        /\ e.start.kind # "none"
        /\ ~(eventDateUTC(e.start, tz) > now)
        /\ matchedPatientId(e.summary, analysed, amap) # "")

\* patient id -> the days (of the local calendar) of the patient's sessions
sessionDatesByPatient(events, now, tz, analysed, amap) ==
    LET kept == datedEvents(events, now, tz, analysed, amap)
        ids == {matchedPatientId(kept[k].summary, analysed, amap) : k \in 1..Len(kept)}
    IN  [id \in ids |->
            LET mine == SelectSeq(kept, LAMBDA e :
                            matchedPatientId(e.summary, analysed, amap) = id)
            IN  Tuple([k \in 1..Len(mine) |->
                          localDay(eventDateUTC(mine[k].start, tz), tz)])]

MaxWeekEvents == 2

\* the offsets of Asia/Jerusalem: winter and summer time
TimeZones == {2, 3}

\* instants around the start of day 8, a Monday
NowValues == {189, 191, 195, 216}

\* a timed event of the week before, timed events of day 8, all-day events
\* of days 8 and 9, an event without a start
Starts == {StartAt(150), StartAt(194), StartAt(200), StartOn(8), StartOn(9), NoStart}

WeekHappenings == [summary : {Dana, KidTyped, Nick}, colorId : {NoColor, "4", "2"},
                   start : Starts]

\* the roster as WeeklyFinance reads it: Dana pays a commission of 10 percent
WeeklyRoster ==
    << WeeklyPatient("p1", Dana, 200, TRUE, "percent", Value(10)),
       WeeklyPatient("p2", Gan, 100, FALSE, "percent", Null),
       WeeklyPatient("p3", Kid, 80, TRUE, "fixed", Value(20)) >>

\* the patients that have payments in the month
AnalysedPatients == << [id |-> "p1", name |-> Dana], [id |-> "p3", name |-> Kid] >>

WeekInputs ==
    [of : {"sessionLists"}, happenings : SeqsUpTo(WeekHappenings, MaxWeekEvents),
     now : NowValues, tz : TimeZones]

timedEventsOfInput(hs) ==
    Tuple([i \in 1..Len(hs) |->
              TimedEvent(EventIdAt[i], hs[i].summary, hs[i].colorId, hs[i].start)])

InitWeek ==
    /\ Idle
    /\ arg \in WeekInputs
    /\ result = NoCall
    /\ colorRequest = NoRequest

\* a render of WeeklyFinance (this week) and of PerPatientTab
CallSessionLists ==
    /\ arg.of = "sessionLists"
    /\ result = NoCall
    /\ result' = [of |-> "sessionLists",
                  weekly |-> sessionsByDay(timedEventsOfInput(arg.happenings),
                                 getWeekDates(0, arg.now, arg.tz), arg.now, arg.tz,
                                 WeeklyRoster, aliasMap(NickAlias),
                                 overrideMap(SessionOverrides)),
                  perPatient |-> sessionDatesByPatient(timedEventsOfInput(arg.happenings),
                                     arg.now, arg.tz, AnalysedPatients, aliasMap(NickAlias))]
    /\ UNCHANGED <<arg, reconcilerVars, colorRequest>>

NextWeek == CallSessionLists

SpecWeek == InitWeek /\ [][NextWeek]_vars

\* the instant an event starts: an all-day event starts at local midnight
startInstant(e, tz) == eventDateLocal(e.start, tz)

\* the events of the input that have started by now
StartedEvents ==
    SelectSeq(timedEventsOfInput(arg.happenings), LAMBDA e :
        e.start.kind = "none" \/ startInstant(e, arg.tz) <= arg.now)

NotStartedEvents ==
    SelectSeq(timedEventsOfInput(arg.happenings), LAMBDA e :
        e.start.kind # "none" /\ startInstant(e, arg.tz) > arg.now)

ListedEvents ==
    weeklyEvents(timedEventsOfInput(arg.happenings), getWeekDates(0, arg.now, arg.tz),
        arg.now, arg.tz, WeeklyRoster, aliasMap(NickAlias))

\* the price the monthly assembly gives the session of event e, if it bills it
MonthlyPrices(e) ==
    LET bd == billingData(Roster, timedEventsOfInput(arg.happenings),
                  aliasMap(NickAlias), overrideMap(SessionOverrides))
    IN  UNION {{bd[i].sessions[k].sessionPrice :
                   k \in {n \in 1..Len(bd[i].sessions) :
                             bd[i].sessions[n].eventId = e.id}} : i \in 1..Len(bd)}

WeeklyBasePrice(e) ==
    basePrice(e, findMatchingPatient(e.summary, WeeklyRoster, aliasMap(NickAlias)).patient,
        overrideMap(SessionOverrides))

\* a listed session is priced, before commission, as the monthly assembly
\* prices it, when the monthly assembly bills its event
SamePriceWhereBilled ==
    \A k \in 1..Len(ListedEvents) :
        MonthlyPrices(ListedEvents[k]) \subseteq {WeeklyBasePrice(ListedEvents[k])}

\* C29: every session of a WeeklyFinance daily list comes from an event the
\* monthly assembly also bills: its colorId is not "4" and is a billable
\* colour, and its price before commission is the price the monthly assembly
\* gives the session.
C29_WeeklyAgreesWithMonthly ==
    result.of = "sessionLists" =>
        \A k \in 1..Len(ListedEvents) :
            /\ ListedEvents[k].colorId # CANCELLED_COLOR_ID
            /\ isBillingEvent(ListedEvents[k].colorId)
            /\ MonthlyPrices(ListedEvents[k]) = {WeeklyBasePrice(ListedEvents[k])}

-----------------------------------------------------------------------------
(* The month MonthlyBillingSummary selects: selectedDate / currentMonth     *)

\* a Date by its local fields: getFullYear(), getMonth() (0..11), getDate()
DateOf(year, month, date) == [year |-> year, month |-> month, date |-> date]

isLeapYear(year) == (year % 4 = 0 /\ year % 100 # 0) \/ year % 400 = 0

daysInMonth(year, month) ==
    IF month = 1 THEN (IF isLeapYear(year) THEN 29 ELSE 28)
    ELSE IF month \in {3, 5, 8, 10} THEN 30 ELSE 31

\* Date.prototype.setMonth(month): the year and the month are normalised,
\* the day of the month is kept, and a day the month does not have runs
\* over into the month after
setMonth(d, month) ==
    LET index == d.year * 12 + month
        year == index \div 12
        normal == index % 12
    IN  IF d.date <= daysInMonth(year, normal)
        THEN DateOf(year, normal, d.date)
        ELSE DateOf((index + 1) \div 12, (index + 1) % 12,
                    d.date - daysInMonth(year, normal))

Digit == <<"0", "1", "2", "3", "4", "5", "6", "7", "8", "9">>

RECURSIVE String(_)
\* String(n) of a natural number: its decimal digits
String(n) == IF n < 10 THEN <<Digit[n + 1]>> ELSE String(n \div 10) \o <<Digit[(n % 10) + 1]>>

RECURSIVE padStart(_, _, _)
padStart(str, targetLength, fill) ==
    IF Len(str) >= targetLength THEN str ELSE padStart(<<fill>> \o str, targetLength, fill)

selectedDate(today, monthOffset) == setMonth(today, today.month + monthOffset)

\* `${getFullYear()}-${String(getMonth() + 1).padStart(2, "0")}`
currentMonth(today, monthOffset) ==
    String(selectedDate(today, monthOffset).year) \o <<"-">>
        \o padStart(String(selectedDate(today, monthOffset).month + 1), 2, "0")

\* how far back the month is stepped
MaxBack == 3

Todays ==
    {d \in [year : {2023, 2024}, month : 0..11, date : {1, 15, 28, 29, 30, 31}] :
        d.date <= daysInMonth(d.year, d.month)}

\* the component mounts with monthOffset 0 and renders
InitMonth ==
    /\ Idle
    /\ \E today \in Todays :
          /\ arg = [of |-> "currentMonth", today |-> today, monthOffset |-> 0]
          /\ result = [of |-> "currentMonth", value |-> currentMonth(today, 0)]
    /\ colorRequest = NoRequest

\* setMonthOffset and the render that follows
SetMonthOffset(monthOffset) ==
    /\ arg' = [arg EXCEPT !.monthOffset = monthOffset]
    /\ result' = [of |-> "currentMonth", value |-> currentMonth(arg.today, monthOffset)]
    /\ UNCHANGED <<reconcilerVars, colorRequest>>

\* the button of the month before
PreviousMonth ==
    /\ arg.of = "currentMonth"
    /\ arg.monthOffset > -MaxBack
    /\ SetMonthOffset(arg.monthOffset - 1)

\* the button of the month after, disabled when monthOffset >= 0
NextMonth ==
    /\ arg.of = "currentMonth"
    /\ ~(arg.monthOffset >= 0)
    /\ SetMonthOffset(arg.monthOffset + 1)

NextSelection == PreviousMonth \/ NextMonth

SpecMonth == InitMonth /\ [][NextSelection]_vars

\* the calendar month |k| months before the month of today, as YYYY-MM
MonthBefore(today, k) ==
    LET index == today.year * 12 + today.month + k
        month == (index % 12) + 1
    IN  String(index \div 12) \o <<"-">>
            \o (IF month < 10 THEN <<"0">> ELSE << >>) \o String(month)

\* C28: whatever the current date, days 29 to 31 included, and whatever the
\* monthOffset k <= 0, the month key selected is the calendar month exactly
\* |k| months before the current month, as a zero-padded YYYY-MM; so one
\* step of the offset moves the selected month by exactly one month.
C28_SelectedMonthIsOffsetMonth ==
    result.of = "currentMonth" =>
        result.value = MonthBefore(arg.today, arg.monthOffset)

-----------------------------------------------------------------------------
(* A google-calendar-update-colors request, from its body to its response  *)

MaxItems == 4

\* the request has been authorized and carries 0..MaxItems event ids
InitUpdateColors ==
    /\ Idle
    /\ arg = NoCall
    /\ result = NoCall
    /\ colorRequest \in {[phase |-> "received", items |-> [k \in 1..n |-> NewItem],
                           i |-> 0, response |-> NoResponse] : n \in 0..MaxItems}

\* the body is parsed: an empty eventIds is answered 400, otherwise the first
\* batch is started
ReceiveRequest ==
    /\ colorRequest.phase = "received"
    /\ colorRequest' =
          IF Len(colorRequest.items) = 0
          THEN [colorRequest EXCEPT !.phase = "responded",
                                    !.response = Response("400", 0, 0, 0)]
          ELSE [colorRequest EXCEPT !.phase = "batches", !.i = 1]
    /\ UNCHANGED <<arg, result, reconcilerVars>>

\* the colour request as it goes on once the items are as in items: a
\* rejected updateEvent rejects Promise.all and the catch answers 500; a
\* settled batch is followed by the next batch or by the 200 answer
proceed(req, items) ==
    IF \E k \in batchOf(items, req.i) : items[k].settled = "rejected"
    THEN [req EXCEPT !.items = items, !.phase = "responded",
                     !.response = Response("500", 0, 0, 0)]
    ELSE IF \E k \in batchOf(items, req.i) : items[k].settled = "pending"
    THEN [req EXCEPT !.items = items]
    ELSE IF req.i + BATCH_SIZE <= Len(items)
    THEN [req EXCEPT !.items = items, !.i = req.i + BATCH_SIZE]
    ELSE [req EXCEPT !.items = items, !.phase = "responded",
                     !.response = Response("200", updatedCount(items),
                                           Len(items) - updatedCount(items), Len(items))]

\* the calendar API answers the pending PATCH of item k of the current batch
PatchAnswered(k, outcome) ==
    /\ colorRequest.phase = "batches"
    /\ k \in batchOf(colorRequest.items, colorRequest.i)
    /\ colorRequest.items[k].settled = "pending"
    /\ colorRequest' =
          proceed(colorRequest,
                  [colorRequest.items EXCEPT ![k] = afterPatch(@, outcome)])
    /\ UNCHANGED <<arg, result, reconcilerVars>>

NextUpdateColors ==
    \/ ReceiveRequest
    \/ \E k \in 1..MaxItems, o \in PatchOutcomes : PatchAnswered(k, o)

SpecUpdateColors == InitUpdateColors /\ [][NextUpdateColors]_vars

\* every PATCH is answered or fails in the end
FairUpdateColors == SpecUpdateColors /\ WF_vars(NextUpdateColors)

Responded == colorRequest.phase = "responded"

\* C19: whatever each PATCH comes to (success, HTTP error, rate-limit answer,
\* thrown network or parse error), every requested event of every batch is
\* attempted and is reported as updated or failed, and the request is not
\* answered with an error: the answer to a request with events is the 200
\* answer, whose updated and failed counts cover every event.
C19_EveryEventAttemptedAndReported ==
    (Responded /\ Len(colorRequest.items) > 0) =>
        /\ colorRequest.response.status = "200"
        /\ \A k \in 1..Len(colorRequest.items) :
              /\ Len(colorRequest.items[k].outcomes) >= 1
              /\ colorRequest.items[k].settled \in {"updated", "failed"}
        /\ colorRequest.response.updated + colorRequest.response.failed
               = Len(colorRequest.items)

NoPatchThrew ==
    \A k \in 1..Len(colorRequest.items), x \in 1..(MAX_RETRIES + 2) :
        x <= Len(colorRequest.items[k].outcomes)
            => colorRequest.items[k].outcomes[x] # "throw"

\* the attempts of every event are within the retry budget, every attempt
\* but the last was answered with the rate-limit answer, and an event whose
\* budget is used up is reported as failed
WithinRetryBudget ==
    \A k \in 1..Len(colorRequest.items) :
        LET item == colorRequest.items[k] IN
        /\ Len(item.outcomes) <= MAX_RETRIES + 1
        /\ item.retries <= MAX_RETRIES
        /\ \A x \in 1..MAX_RETRIES :
              x < Len(item.outcomes) => item.outcomes[x] = "rateLimit"
        /\ (Len(item.outcomes) = MAX_RETRIES + 1
                /\ item.outcomes[MAX_RETRIES + 1] = "rateLimit")
             => item.settled = "failed"

-----------------------------------------------------------------------------
(* Properties of the reconciler                                           *)

RECURSIVE SumPrices(_)
SumPrices(S) ==
    IF S = {} THEN 0
    ELSE LET x == CHOOSE y \in S : TRUE IN x.sessionPrice + SumPrices(S \ {x})

\* the billing entry of Dana in the current render, if she has sessions
DanaBilled == \E i \in 1..Len(billing) : billing[i].patient.id = "p1"
DanaBilling == billingFor(billing, "p1")

\* C1: auto-sync is idempotent.  For every calendar colouring and every
\* stored payments table the reconciler reaches, a run that reads the stored
\* payments has all its writes applied, and a second run that reads the
\* payments as they are after those writes, with the colours unchanged, finds
\* no update to make: it issues no insert and no update.
C1_AutoSyncIdempotent ==
    LET bd == billing
        ws == syncWrites(bd, calendarData, paymentsTable)
        reread == applyAll(paymentsTable, ws)
    IN  /\ allApplied(paymentsTable, ws)
        /\ syncUpdates(bd, calendarData, reread) = << >>
        /\ syncWrites(bd, calendarData, reread) = << >>

\* a run's write has been applied, the run has finished, the payments have
\* been read again, and the effect of the next render has nothing to write
C1_Witness ==
    /\ last.w.by = "sync" /\ last.ok
    /\ paymentsTable[last.w.patient] = last.w.row
    /\ syncedMonths /\ inflight = EmptyBag
    /\ payments = paymentsTable
    /\ DanaBilled /\ purpleIds(DanaBilling, calendarData) # {}
    /\ syncWrites(billing, calendarData, payments) = << >>

\* C2: no insert is ever issued for a (patient, month) that already has a
\* payment row: whenever an insert request reaches the payments table, the
\* table holds no row for that patient.
C2_NoInsertForExistingRow == ~(last.w.op = "insert" /\ last.prev.exists)

\* C5: right after a write is applied for a patient whose sessions are the ones
\* the writer saw, the stored row has paid = TRUE if and only if every session
\* of the patient's billing has its event id in paid_event_ids.
C5_PaidIffAllSessionsCovered ==
    \A i \in 1..Len(billing) :
        LET b == billing[i]
            row == paymentsTable[b.patient.id]
        IN  (/\ last.ok /\ last.w.patient = b.patient.id
             /\ last.w.sessions = sessionView(b)
             /\ row = last.w.row)
            => (row.paid <=> sessionIds(b) \subseteq row.paid_event_ids)

\* C6: whenever auto-sync writes a payment, the written amount is the sum of
\* the effective prices of the sessions whose event id is in the written
\* paid_event_ids, and the written session_count is the size of paid_event_ids.
C6_SyncAmountIsSumOfPrices ==
    last.w.by = "sync" =>
        /\ last.w.row.amount =
               SumPrices({x \in last.w.sessions : x.eventId \in last.w.row.paid_event_ids})
        /\ last.w.row.session_count = Cardinality(last.w.row.paid_event_ids)

\* C7: every auto-sync update writes a paid_event_ids that is a superset of
\* the paid_event_ids the row holds in the table when the update is applied.
C7_SyncUpdateKeepsPaidIds ==
    (last.w.by = "sync" /\ last.w.op = "update")
        => paidIdsOf(last.prev) \subseteq last.w.row.paid_event_ids

\* C8: when a billed patient has a purple session and no payment row, one
\* auto-sync run issues exactly one write for the patient, an insert, whose
\* paid_event_ids is exactly the set of the patient's purple session ids and
\* whose paid flag is TRUE exactly when those are all the patient's sessions;
\* applied, it is the patient's row.
C8_FirstSyncInsertsPurpleIds ==
    \A i \in 1..Len(billing) :
        LET bd == billing
            b == bd[i]
            p == b.patient.id
            purple == purpleIds(b, calendarData)
            ws == syncWrites(bd, calendarData, payments)
            mine == SelectSeq(ws, LAMBDA w : w.patient = p)
        IN  (purple # {} /\ ~paymentsTable[p].exists) =>
                /\ Len(mine) = 1
                /\ mine[1].op = "insert"
                /\ mine[1].row.paid_event_ids = purple
                /\ mine[1].row.session_count = Cardinality(purple)
                /\ mine[1].row.paid = (purple = sessionIds(b))
                /\ applyAll(paymentsTable, ws)[p] = mine[1].row

\* a run has inserted the row of a patient who had none: one of her two
\* sessions is purple, and the row is stored unpaid with that one id
C8_Witness ==
    /\ last.w.by = "sync" /\ last.w.op = "insert" /\ last.ok
    /\ ~last.prev.exists
    /\ paymentsTable[last.w.patient] = last.w.row
    /\ DanaBilled /\ last.w.patient = "p1"
    /\ last.w.row.paid_event_ids = purpleIds(DanaBilling, calendarData)
    /\ Cardinality(last.w.row.paid_event_ids) = 1
    /\ Len(DanaBilling.sessions) = 2
    /\ ~last.w.row.paid

\* C9: when the colour-repaint call of a toggle throws or returns an error,
\* the payments table is left as it is, no further write is issued, and the
\* operation ends without an error toast.
C9_RepaintFailureKeepsWrite ==
    [][\A op \in BagToSet(inflight), o \in {"error", "throw"} :
          Repaint(op, o) =>
              /\ paymentsTable' = paymentsTable
              /\ \A op2 \in BagToSet(inflight') : op2 \in BagToSet(inflight)
              /\ last'.toast # "error"]_vars

\* the repaint call of a session toggle has thrown; the row the toggle wrote
\* is in the table
C9_Witness ==
    /\ last.repaint = "throw" /\ last.toast # "error"
    /\ last.w.by = "toggle" /\ last.ok
    /\ paymentsTable[last.w.patient] = last.w.row
    /\ last.w.event \in last.w.row.paid_event_ids
    /\ inflight = EmptyBag

\* C10: the write of a session toggle changes the membership of exactly the
\* toggled event id in the row's paid_event_ids: the ids of the row after the
\* write differ from the ids before it by that one id.
C10_ToggleFlipsExactlyOne ==
    last.w.by = "toggle" =>
        LET before == paidIdsOf(last.prev)
            after == IF last.ok THEN last.w.row.paid_event_ids ELSE before
        IN  (after \ before) \cup (before \ after) = {last.w.event}

\* C11: every write of a session toggle carries a session_count equal to the
\* size of the written paid_event_ids, an amount equal to the sum of the
\* effective prices of exactly the sessions whose event id is in the written
\* paid_event_ids, and paid = (session_count = number of the patient's
\* sessions), also when paid_event_ids holds ids of events that are no longer
\* among the patient's sessions.
C11_ToggleRecomputesRow ==
    last.w.by = "toggle" =>
        /\ last.w.row.session_count = Cardinality(last.w.row.paid_event_ids)
        /\ last.w.row.amount =
               SumPrices({x \in last.w.sessions : x.eventId \in last.w.row.paid_event_ids})
        /\ last.w.row.paid = (last.w.row.session_count = Cardinality(last.w.sessions))

\* a toggle has written a row whose paid_event_ids holds the toggled session,
\* whose price is overridden, next to the id of an event that is no longer a
\* session of the patient
C11_Witness ==
    /\ last.w.by = "toggle" /\ last.ok
    /\ paymentsTable[last.w.patient] = last.w.row
    /\ last.w.event \in last.w.row.paid_event_ids
    /\ \E e \in last.w.row.paid_event_ids :
          \A x \in last.w.sessions : x.eventId # e
    /\ last.w.row.amount = 150
    /\ last.w.row.session_count = 2

\* C12: the synced-months set only suppresses redundant work.  Whenever a
\* render is followed by an effect that returns at once because the month is
\* in the set, the sync computation on the calendar events of that render and
\* the stored payments finds no update to make.
C12_SkipOnlyWhenNothingToDo ==
    [][(syncedMonths /\ (calendarData' # calendarData \/ payments' # payments))
          => syncWrites(billing', calendarData', paymentsTable') = << >>]_vars

\* C25: toggleAllPaid issues a single payment write.  When not every session
\* of the card is paid, the write carries the event ids of all the patient's
\* sessions, paid = TRUE, the billing total as amount and a session_count
\* equal to the number of those ids; when every session is paid it carries
\* no id, paid = FALSE, amount 0 and session_count 0; and this whether or not
\* the card has a payment row.
C25_ToggleAllWritesWholeSet ==
    [][\A i \in 1..Len(billing) :
          ToggleAllStart(i) =>
              \E op \in BagToSet(inflight') :
                  /\ inflight' = inflight (+) SetToBag({op})
                  /\ op.kind = "toggleAll" /\ Len(op.writes) = 1
                  /\ Head(op.writes).row =
                        IF sessionIds(billing[i]) \subseteq
                               paidIdsOf(payments[billing[i].patient.id])
                        THEN Row(FALSE, 0, 0, {})
                        ELSE Row(TRUE, SumPrices(sessionView(billing[i])),
                                 Cardinality(sessionIds(billing[i])),
                                 sessionIds(billing[i]))]_vars

\* the bulk toggle of a card whose sessions were all paid has emptied the row
C25_Witness ==
    /\ last.w.by = "toggleAll" /\ last.ok /\ last.w.op = "update"
    /\ paidIdsOf(last.prev) = {x.eventId : x \in last.w.sessions}
    /\ paymentsTable[last.w.patient] = Row(FALSE, 0, 0, {})

\* the bulk toggle of a card without a payment row has inserted the row of
\* all its sessions
ToggleAllInserted ==
    /\ last.w.by = "toggleAll" /\ last.ok /\ last.w.op = "insert"
    /\ paymentsTable[last.w.patient].paid
    /\ paymentsTable[last.w.patient].paid_event_ids = {x.eventId : x \in last.w.sessions}

\* the session toggles awaiting their write next to the applied write of
\* another session toggle of the same patient, both events unpaid before:
\* the second toggle was started before the payments were read again
RacingToggles ==
    {op \in BagToSet(inflight) :
        /\ op.kind = "toggle" /\ op.phase = "write"
        /\ last.w.by = "toggle" /\ last.ok
        /\ payments # paymentsTable
        /\ op.patient = last.w.patient
        /\ Head(op.writes).event # last.w.event
        /\ last.w.event \notin paidIdsOf(last.prev)
        /\ last.w.event \in paidIdsOf(paymentsTable[op.patient])
        /\ Head(op.writes).event \notin paidIdsOf(paymentsTable[op.patient])
        /\ Head(op.writes).event \in Head(op.writes).row.paid_event_ids}

\* C27: no update is lost between manual toggles.  When two session toggles
\* of distinct unpaid events a and b of one patient are both started before
\* the payments query is read again, with or without a payment row, the
\* stored paid_event_ids holds a and b once both writes are done.
C27_NoLostToggle ==
    \A op \in RacingToggles :
        {last.w.event, Head(op.writes).event} \subseteq
            paidIdsOf(applyWrite(paymentsTable, Head(op.writes))[op.patient])

\* the session toggles awaiting their repaint call after the write of a
\* session or bulk toggle was rejected
RepaintAfterRejectedWrite ==
    {op \in BagToSet(inflight) :
        /\ op.kind \in {"toggle", "toggleAll"} /\ op.phase = "repaint"
        /\ last.w.by = op.kind /\ last.w.patient = op.patient
        /\ ~last.ok /\ last.repaint = ""}

\* C30: a toggle asks for the repaint of a calendar event only when its
\* payment insert or update succeeded: after a write the table rejected no
\* repaint call of that toggle is awaited, so no event is shown as paid
\* whose id the stored paid_event_ids lacks because of a toggle.
C30_RepaintOnlyAfterStoredWrite ==
    RepaintAfterRejectedWrite = {}

====
